---- MODULE Spec2Model ----
(***************************************************************************)
(* Resume screening and job matching: the JobMatcher (TF-IDF fit, resume   *)
(* projection, cosine similarity, ranking, skill and experience            *)
(* sub-scores), the JSON-file Database of job postings, and the Flask      *)
(* handlers that share one JobMatcher.                                     *)
(*                                                                         *)
(* Representation.  A Python str is a sequence of one-character strings;   *)
(* a text is a sequence of whitespace-separated words.  A Python float is  *)
(* an exact rational [num, den] in lowest terms; round(x, 2) yields an     *)
(* integer number of hundredths.                                           *)
(***************************************************************************)
EXTENDS Integers, Sequences, FiniteSets, TLC

VARIABLES
    jobs_file,    \* Database: the content of data/jobs.json, a list of jobs
    resumes_file, \* Database: the content of data/resumes.json
    vectorizer,   \* JobMatcher.vectorizer: the fitted vocabulary_ and idf_
    fitted,       \* JobMatcher.fitted
    job_vectors,  \* JobMatcher.job_vectors: one row per fitted job
    job_ids,      \* JobMatcher.job_ids
    requests,     \* the in-flight find_matches requests of the handlers
    call          \* the last completed call: its operation, inputs, outcome

vars == <<jobs_file, resumes_file, vectorizer, fitted, job_vectors, job_ids, requests, call>>

matcher == <<vectorizer, fitted, job_vectors, job_ids>>

----------------------------------------------------------------------------
(* Bounds of the model. *)

MaxResumeSkills == 2
MaxJobSkills == 2
MaxYears == 7
MaxJobs == 3
MaxTopN == 3
MaxStore == 2

----------------------------------------------------------------------------
(* Numbers. *)

Abs(n) == IF n < 0 THEN -n ELSE n

RECURSIVE GCD(_, _)
GCD(a, b) == IF b = 0 THEN a ELSE GCD(b, a % b)

\* The rational n/d (d # 0) in lowest terms with a positive denominator.
Rat(n, d) ==
    LET g == GCD(Abs(n), Abs(d))
        s == IF d < 0 THEN -1 ELSE 1
    IN [num |-> s * (n \div g), den |-> s * (d \div g)]

RInt(n) == [num |-> n, den |-> 1]

RAdd(a, b) == Rat(a.num * b.den + b.num * a.den, a.den * b.den)

\* a * (p/q), reducing across before multiplying.
RScale(a, p, q) ==
    LET x == Rat(a.num, q)
        y == Rat(p, a.den)
    IN Rat(x.num * y.num, x.den * y.den)

RLeq(a, b) == a.num * b.den <= b.num * a.den

RMax(a, b) == IF RLeq(a, b) THEN b ELSE a

\* round(x, 2) as a number of hundredths (ties to even).
Round2(x) ==
    LET h == RScale(x, 100, 1)
        f == h.num \div h.den
        r == 2 * (h.num - f * h.den)
    IN IF r < h.den THEN f
       ELSE IF r > h.den THEN f + 1
       ELSE IF f % 2 = 0 THEN f ELSE f + 1

----------------------------------------------------------------------------
(* Strings. *)

\* A list comprehension: the sequence with its elements computed.
List(f) == SubSeq(f, 1, Len(f))

\* str.lower() on the letters the model's words use.
LowerChar(c) ==
    CASE c = "P" -> "p"
      [] c = "S" -> "s"
      [] c = "Q" -> "q"
      [] c = "L" -> "l"
      [] c = "D" -> "d"
      [] c = "E" -> "e"
      [] c = "Y" -> "y"
      [] OTHER -> c

Lower(s) == List([i \in 1..Len(s) |-> LowerChar(s[i])])

\* Python's  a in b  on strings: a is a contiguous substring of b.
In(a, b) == \E i \in 0..(Len(b) - Len(a)) : SubSeq(b, i + 1, i + Len(a)) = a

W_empty == <<>>
W_py == <<"p", "y">>
W_python == <<"p", "y", "t", "h", "o", "n">>
W_Python == <<"P", "y", "t", "h", "o", "n">>
W_SQL == <<"S", "Q", "L">>
W_sql == <<"s", "q", "l">>
W_Dev == <<"D", "e", "v">>
W_developer == <<"d", "e", "v", "e", "l", "o", "p", "e", "r">>
W_role == <<"r", "o", "l", "e">>
W_the == <<"t", "h", "e">>
W_r == <<"r">>

----------------------------------------------------------------------------
(* JobMatcher.calculate_skill_match and calculate_experience_match. *)

calculate_skill_match_oneway(resume_skills, job_skills) ==
    IF job_skills = <<>> THEN RInt(0)
    ELSE LET resume_skills_lower == [i \in 1..Len(resume_skills) |-> Lower(resume_skills[i])]
             job_skills_lower == [i \in 1..Len(job_skills) |-> Lower(job_skills[i])]
             matched_skills == Cardinality({i \in 1..Len(job_skills_lower) :
                 \E k \in 1..Len(resume_skills_lower) :
                     In(resume_skills_lower[k], job_skills_lower[i])})
         IN RScale(Rat(matched_skills, Len(job_skills)), 100, 1)

calculate_skill_match_fraction(resume_skills, job_skills) ==
    IF job_skills = <<>> THEN RInt(0)
    ELSE LET resume_skills_lower == [i \in 1..Len(resume_skills) |-> Lower(resume_skills[i])]
             job_skills_lower == [i \in 1..Len(job_skills) |-> Lower(job_skills[i])]
             matched_skills == Cardinality({i \in 1..Len(job_skills_lower) :
                 \E k \in 1..Len(resume_skills_lower) :
                     \/ In(resume_skills_lower[k], job_skills_lower[i])
                     \/ In(job_skills_lower[i], resume_skills_lower[k])})
         IN Rat(matched_skills, Len(job_skills))

calculate_skill_match(resume_skills, job_skills) ==
    IF job_skills = <<>> THEN RInt(0)
    ELSE LET resume_skills_lower == [i \in 1..Len(resume_skills) |-> Lower(resume_skills[i])]
             job_skills_lower == [i \in 1..Len(job_skills) |-> Lower(job_skills[i])]
             matched_skills == Cardinality({i \in 1..Len(job_skills_lower) :
                 \E k \in 1..Len(resume_skills_lower) :
                     \/ In(resume_skills_lower[k], job_skills_lower[i])
                     \/ In(job_skills_lower[i], resume_skills_lower[k])})
         IN RScale(Rat(matched_skills, Len(job_skills)), 100, 1)

calculate_experience_match_floordiv(resume_years, job_min_years) ==
    IF job_min_years = 0 THEN RInt(100)
    ELSE IF resume_years >= job_min_years THEN RInt(100)
    ELSE RMax(RInt(0), RInt((resume_years \div job_min_years) * 100))

calculate_experience_match(resume_years, job_min_years) ==
    IF job_min_years = 0 THEN RInt(100)
    ELSE IF resume_years >= job_min_years THEN RInt(100)
    ELSE RMax(RInt(0), RScale(Rat(resume_years, job_min_years), 100, 1))

----------------------------------------------------------------------------
(* The state after construction: JobMatcher.__init__. *)

NotFitted == [fit |-> FALSE]
None == [none |-> TRUE]
Pending == [kind |-> "pending"]
Return(v) == [kind |-> "return", value |-> v]
Raise(e) == [kind |-> "raise", error |-> e]

MatcherInit ==
    /\ vectorizer = NotFitted
    /\ fitted = FALSE
    /\ job_vectors = None
    /\ job_ids = <<>>

----------------------------------------------------------------------------
(* TfidfVectorizer(max_features=5000, stop_words='english',                *)
(* ngram_range=(1, 2), min_df=1, max_df=0.95) as JobMatcher configures it. *)
(* Weights are fixed-point: idf in hundredths, a row holds tf * idf, and   *)
(* the l2 normalisation of a row is left to cosine_similarity, which       *)
(* normalises its arguments again anyway.                                  *)

max_features == 5000
min_df == 1
max_df_percent == 95

stop_words == {W_the}

Alphabet == <<" ", "a", "b", "c", "d", "e", "f", "g", "h", "i", "j", "k", "l", "m",
              "n", "o", "p", "q", "r", "s", "t", "u", "v", "w", "x", "y", "z">>

Ord(c) == CHOOSE i \in 1..Len(Alphabet) : Alphabet[i] = c

\* Python's  a < b  on lower-case strings.
RECURSIVE StrLessFrom(_, _, _)
StrLessFrom(a, b, i) ==
    IF i > Len(b) THEN FALSE
    ELSE IF i > Len(a) THEN TRUE
    ELSE IF a[i] = b[i] THEN StrLessFrom(a, b, i + 1)
    ELSE Ord(a[i]) < Ord(b[i])

StrLess(a, b) == StrLessFrom(a, b, 1)

\* ' '.join(words)
RECURSIVE Join(_)
Join(words) ==
    IF words = <<>> THEN <<>>
    ELSE IF Len(words) = 1 THEN words[1]
    ELSE words[1] \o <<" ">> \o Join(Tail(words))

\* The analyzer: lower-case, keep the words of two or more characters
\* (token_pattern), drop the stop words, then form unigrams and bigrams.
Tokens(text) ==
    SelectSeq([i \in 1..Len(text) |-> Lower(text[i])],
              LAMBDA w : Len(w) >= 2 /\ w \notin stop_words)

Ngrams(text) ==
    LET t == Tokens(text)
    IN IF t = <<>> THEN <<>>
       ELSE [i \in 1..Len(t) |-> t[i]]
            \o [i \in 1..(Len(t) - 1) |-> Join(<<t[i], t[i + 1]>>)]

Count(f, grams) == Cardinality({i \in 1..Len(grams) : grams[i] = f})

Range(seq) == {seq[i] : i \in 1..Len(seq)}

\* The features in sorted order, as vocabulary_ indexes them.
RECURSIVE Insert(_, _)
Insert(f, sorted) ==
    IF sorted = <<>> THEN <<f>>
    ELSE IF StrLess(f, sorted[1]) THEN <<f>> \o sorted
    ELSE <<sorted[1]>> \o Insert(f, Tail(sorted))

RECURSIVE SortedSeq(_)
SortedSeq(S) ==
    IF S = {} THEN <<>>
    ELSE LET f == CHOOSE f \in S : TRUE
         IN Insert(f, SortedSeq(S \ {f}))

\* 100 * ln(k)
Ln100(k) ==
    CASE k = 1 -> 0   [] k = 2 -> 69  [] k = 3 -> 110 [] k = 4 -> 139
      [] k = 5 -> 161 [] k = 6 -> 179 [] k = 7 -> 195 [] k = 8 -> 208

MaxGrams(grams) ==
    IF grams = <<>> THEN 0
    ELSE CHOOSE m \in {Len(grams[i]) : i \in 1..Len(grams)} :
             \A i \in 1..Len(grams) : Len(grams[i]) <= m

\* smooth idf: ln((1 + n) / (1 + df)) + 1, in hundredths.
Idf100(n, df) == Ln100(1 + n) - Ln100(1 + df) + 100

\* CountVectorizer._limit_features: the document-frequency window, then the
\* max_features most frequent terms.
LimitFeatures(all, df, tfs, n) ==
    LET in_window == {f \in all : df[f] >= min_df /\ 100 * df[f] <= max_df_percent * n}
    IN IF Cardinality(in_window) <= max_features THEN in_window
       ELSE {f \in in_window :
                Cardinality({g \in in_window :
                    \/ tfs[g] > tfs[f]
                    \/ tfs[g] = tfs[f] /\ StrLess(g, f)}) < max_features}

\* vectorizer.transform of one text under a fitted vocabulary.
Transform(vec, text) ==
    LET grams == Ngrams(text)
    IN List([i \in 1..Len(vec.vocabulary_) |->
                Count(vec.vocabulary_[i], grams) * vec.idf_[i]])

\* vectorizer.fit_transform(texts): the new vectorizer and the matrix, or the
\* ValueError that scikit-learn raises (empty vocabulary; max_df below min_df;
\* no terms left after pruning), which leaves the vectorizer as it was.
FitTransform(texts) ==
    LET n == Len(texts)
        grams == List([i \in 1..n |-> Ngrams(texts[i])])
        all == UNION {Range(grams[i]) : i \in 1..n}
        df == [f \in all |-> Cardinality({i \in 1..n : Count(f, grams[i]) > 0})]
        tfs == [f \in all |-> Cardinality({<<i, j>> \in (1..n) \X (1..MaxGrams(grams)) :
                                  j <= Len(grams[i]) /\ grams[i][j] = f})]
        kept == LimitFeatures(all, df, tfs, n)
        vocab == SortedSeq(kept)
        vec == [fit |-> TRUE, vocabulary_ |-> vocab,
                idf_ |-> List([i \in 1..Len(vocab) |-> Idf100(n, df[vocab[i]])])]
    IN IF all = {} THEN [ok |-> FALSE, error |-> "ValueError"]
       ELSE IF max_df_percent * n < 100 * min_df THEN [ok |-> FALSE, error |-> "ValueError"]
       ELSE IF kept = {} THEN [ok |-> FALSE, error |-> "ValueError"]
       ELSE [ok |-> TRUE, vectorizer |-> vec,
             X |-> List([i \in 1..n |-> Transform(vec, texts[i])])]

----------------------------------------------------------------------------
(* JobMatcher: self is [vectorizer, fitted, job_vectors, job_ids]. *)

CombinedText(job) == job.title \o job.description \o job.required_skills

fit_vectorizer_marks_fitted(self, job_descriptions, ids) ==
    IF job_descriptions = <<>> THEN [raised |-> FALSE, self |-> [self EXCEPT !.fitted = TRUE]]
    ELSE LET combined_texts == List([i \in 1..Len(job_descriptions) |->
                                        job_descriptions[i].title
                                        \o job_descriptions[i].description
                                        \o job_descriptions[i].required_skills])
             r == FitTransform(combined_texts)
         IN IF ~r.ok THEN [raised |-> TRUE, error |-> r.error, self |-> self]
            ELSE [raised |-> FALSE,
                  self |-> [vectorizer |-> r.vectorizer,
                            fitted |-> TRUE,
                            job_vectors |-> r.X,
                            job_ids |-> IF ids # <<>> THEN ids
                                        ELSE [i \in 1..Len(job_descriptions) |-> i - 1]]]

fit_vectorizer(self, job_descriptions, ids) ==
    IF job_descriptions = <<>> THEN [raised |-> FALSE, self |-> self]
    ELSE LET combined_texts == List([i \in 1..Len(job_descriptions) |->
                                        CombinedText(job_descriptions[i])])
             r == FitTransform(combined_texts)
         IN IF ~r.ok THEN [raised |-> TRUE, error |-> r.error, self |-> self]
            ELSE [raised |-> FALSE,
                  self |-> [vectorizer |-> r.vectorizer,
                            fitted |-> TRUE,
                            job_vectors |-> r.X,
                            job_ids |-> IF ids # <<>> THEN ids
                                        ELSE [i \in 1..Len(job_descriptions) |-> i - 1]]]

\* transform on a vectorizer that was never fitted raises scikit-learn's
\* NotFittedError.
create_resume_vector(self, resume_data) ==
    IF ~self.fitted THEN Raise("ValueError")
    ELSE IF ~self.vectorizer.fit THEN Raise("NotFittedError")
    ELSE Return(Transform(self.vectorizer, resume_data.cleaned_text \o resume_data.skills))

RECURSIVE SqrtBetween(_, _, _)
SqrtBetween(n, lo, hi) ==
    IF lo >= hi THEN lo
    ELSE LET mid == (lo + hi + 1) \div 2
         IN IF mid * mid <= n THEN SqrtBetween(n, mid, hi)
            ELSE SqrtBetween(n, lo, mid - 1)

\* floor(sqrt(n)) for 0 <= n < 2^30
Sqrt(n) == SqrtBetween(n, 0, 32767)

RECURSIVE Dot(_, _)
Dot(a, b) == IF a = <<>> THEN 0 ELSE a[1] * b[1] + Dot(Tail(a), Tail(b))

\* The cosine of two rows, in units of 1/100000; 0 for a zero row.  A
\* positive cosine of less than one unit is one unit:  > 0  stays exact.
Cosine(a, b) ==
    LET na == Sqrt(Dot(a, a))
        nb == Sqrt(Dot(b, b))
        c == (((Dot(a, b) * 100) \div na) * 1000) \div nb
    IN IF na = 0 \/ nb = 0 THEN 0
       ELSE IF c > 100000 THEN 100000
       ELSE IF c = 0 /\ Dot(a, b) > 0 THEN 1
       ELSE c

\* cosine_similarity(resume_vector, job_vectors)[0]; the two matrices must
\* have the same number of columns.
calculate_similarity(resume_vector, vectors) ==
    IF \E i \in 1..Len(vectors) : Len(vectors[i]) # Len(resume_vector)
    THEN Raise("ValueError")
    ELSE Return(List([i \in 1..Len(vectors) |-> Cosine(resume_vector, vectors[i])]))

\* np.argsort(similarities): the indices by ascending value, ties by index.
ArgSort(x) ==
    List([k \in 1..Len(x) |->
        CHOOSE i \in 1..Len(x) :
            Cardinality({j \in 1..Len(x) : x[j] < x[i] \/ (x[j] = x[i] /\ j < i)}) = k - 1])

Reverse(x) == List([k \in 1..Len(x) |-> x[Len(x) + 1 - k]])

Take(x, n) == SubSeq(x, 1, IF n < Len(x) THEN n ELSE Len(x))

top_indices(similarities, top_n) == Take(Reverse(ArgSort(similarities)), top_n)

\* lines 86-109: the match built for jobs[idx].
Match(resume_data, job, similarity) ==
    LET match_score == Rat(similarity, 1000)
        skill_match == calculate_skill_match(resume_data.skills, job.required_skills)
        experience_match == calculate_experience_match(resume_data.years, job.min_experience)
    IN [job_id |-> job.id,
        similarity_score |-> Round2(match_score),
        skill_match |-> skill_match,
        experience_match |-> experience_match,
        overall_score |-> Round2(RAdd(RAdd(RScale(match_score, 6, 10),
                                           RScale(skill_match, 30, 1)),
                                      RScale(experience_match, 10, 1)))]

\* list.sort(key=overall_score, reverse=True): descending, equal keys keep
\* their order.
sort_unsorted(matches) == matches

sort_by_overall_score(matches) ==
    List([k \in 1..Len(matches) |->
        matches[CHOOSE i \in 1..Len(matches) :
            Cardinality({j \in 1..Len(matches) :
                \/ matches[j].overall_score > matches[i].overall_score
                \/ matches[j].overall_score = matches[i].overall_score /\ j < i}) = k - 1]])

\* lines 79-113 of find_matches.
rank_matches(resume_data, jobs, similarities, top_n) ==
    LET idxs == top_indices(similarities, top_n)
        hits == SelectSeq(idxs, LAMBDA idx : similarities[idx] > 0)
    IN IF \E k \in 1..Len(hits) : hits[k] > Len(jobs) THEN Raise("IndexError")
       ELSE Return(CHOOSE sorted \in
                {sort_by_overall_score(matches) :
                    matches \in {List([k \in 1..Len(hits) |->
                        Match(resume_data, jobs[hits[k]], similarities[hits[k]])])}} : TRUE)

JobIds(jobs) == [i \in 1..Len(jobs) |-> jobs[i].id]

\* lines 69-113 of find_matches: fit, project, compare, rank.  An exception
\* at any step ends the call; what fit_vectorizer stored stays stored.  Each
\* local variable is bound once, as the one element of a set.
find_matches_ranked(f, resume_data, jobs, top_n, rv) ==
    CHOOSE out \in
        {IF similarities.kind = "raise" THEN [ret |-> similarities, self |-> f.self]
         ELSE [ret |-> rank_matches(resume_data, jobs, similarities.value, top_n),
               self |-> f.self] :
            similarities \in {calculate_similarity(rv.value, f.self.job_vectors)}} : TRUE

find_matches_projected(f, resume_data, jobs, top_n) ==
    CHOOSE out \in
        {IF resume_vector.kind = "raise" THEN [ret |-> resume_vector, self |-> f.self]
         ELSE find_matches_ranked(f, resume_data, jobs, top_n, resume_vector) :
            resume_vector \in {create_resume_vector(f.self, resume_data)}} : TRUE

find_matches_fitted(self, resume_data, jobs, top_n) ==
    CHOOSE out \in
        {IF f.raised THEN [ret |-> Raise(f.error), self |-> f.self]
         ELSE find_matches_projected(f, resume_data, jobs, top_n) :
            f \in {fit_vectorizer(self, jobs, JobIds(jobs))}} : TRUE

\* find_matches without its early return for an empty job list.
find_matches_no_early_return(self, resume_data, jobs, top_n) ==
    find_matches_fitted(self, resume_data, jobs, top_n)

\* find_matches run without interruption on jobs (already loaded when the
\* argument was None): the outcome and the matcher it leaves.
find_matches(self, resume_data, jobs, top_n) ==
    IF jobs = <<>> THEN [ret |-> Return(<<>>), self |-> self]
    ELSE find_matches_fitted(self, resume_data, jobs, top_n)

Self == [vectorizer |-> vectorizer, fitted |-> fitted,
         job_vectors |-> job_vectors, job_ids |-> job_ids]

SetSelf(self) ==
    /\ vectorizer' = self.vectorizer
    /\ fitted' = self.fitted
    /\ job_vectors' = self.job_vectors
    /\ job_ids' = self.job_ids

FreshMatcher == [vectorizer |-> NotFitted, fitted |-> FALSE,
                 job_vectors |-> None, job_ids |-> <<>>]

----------------------------------------------------------------------------
(* Job postings and candidate profiles the checks draw from. *)

\* The job of the single-job example: "Dev", "Python developer role",
\* required skills Python and SQL, no experience required.
JobDev == [title |-> <<W_Dev>>, description |-> <<W_Python, W_developer, W_role>>,
           required_skills |-> <<W_Python, W_SQL>>, min_experience |-> 0]

\* Close to a python developer's text, but no listed skills and 4 years.
JobSenior == [title |-> <<W_python, W_developer>>, description |-> <<W_the, W_python>>,
              required_skills |-> <<>>, min_experience |-> 4]

\* Shares one word with a developer's text; its skill "py" matches python.
JobData == [title |-> <<W_sql, W_developer>>, description |-> <<W_sql, W_role, W_r>>,
            required_skills |-> <<W_py>>, min_experience |-> 2]

\* Shares nothing with a python developer's text.
JobSql == [title |-> <<W_SQL>>, description |-> <<W_the, W_role>>,
           required_skills |-> <<W_sql>>, min_experience |-> 1]

JobPool == {JobDev, JobSenior, JobData, JobSql}

WithId(body, id) ==
    [id |-> id, title |-> body.title, description |-> body.description,
     required_skills |-> body.required_skills, min_experience |-> body.min_experience]

\* The job lists of up to n jobs, the i-th with id i.
JobLists(n) == UNION {{[i \in 1..k |-> WithId(b[i], i)] : b \in [1..k -> JobPool]} : k \in 0..n}

ProfilePython == [cleaned_text |-> <<W_python, W_developer>>, skills |-> <<W_python>>, years |-> 0]
ProfileSql == [cleaned_text |-> <<W_sql, W_role>>, skills |-> <<W_sql, W_r>>, years |-> 2]
ProfileEmpty == [cleaned_text |-> <<W_the>>, skills |-> <<>>, years |-> 0]

Profiles == {ProfilePython, ProfileSql, ProfileEmpty}

\* The resumes the store holds for get_resume_matches.
Resumes == {ProfilePython, ProfileSql}

----------------------------------------------------------------------------
(* Database: data/jobs.json.  Two postings stand for the six sample jobs   *)
(* of initialize_sample_jobs; their ids are 1, 2, ... as in the source.    *)

sample_jobs == <<WithId(JobSenior, 1), WithId(JobData, 2)>>

\* The job data the POST and PUT handlers are sent.
PostedJobs == {JobDev, JobData}

\* Ids are capped at the store's size.
MaxId == MaxStore

RECURSIVE MaxOf(_)
MaxOf(ids) ==
    IF ids = <<>> THEN 0
    ELSE LET rest == MaxOf(Tail(ids))
         IN IF ids[1] >= rest THEN ids[1] ELSE rest

\* An id taken from the number of stored jobs instead of their largest id.
save_job_new_id_len(jobs) == Len(jobs) + 1

save_job_new_id(jobs) == IF jobs # <<>> THEN MaxOf(JobIds(jobs)) + 1 ELSE 1

\* Database.save_job(job_data)
SaveJob ==
    \E job_data \in PostedJobs :
        LET new_id == save_job_new_id(jobs_file)
        IN /\ Len(jobs_file) < MaxStore
           /\ new_id <= MaxId
           /\ jobs_file' = Append(jobs_file, WithId(job_data, new_id))
           /\ call' = [op |-> "save_job", ret |-> Return(new_id)]
           /\ UNCHANGED <<resumes_file, vectorizer, fitted, job_vectors, job_ids, requests>>

\* Database.update_job(job_id, job_data): the first job of that id is
\* replaced; ValueError when there is none.
UpdateJob ==
    \E job_id \in 1..MaxId, job_data \in PostedJobs :
        LET at == {i \in 1..Len(jobs_file) : jobs_file[i].id = job_id}
        IN /\ IF at # {}
              THEN LET i == CHOOSE i \in at : \A j \in at : i <= j
                   IN /\ jobs_file' = [jobs_file EXCEPT ![i] = WithId(job_data, job_id)]
                      /\ call' = [op |-> "update_job", ret |-> Return(None)]
              ELSE /\ jobs_file' = jobs_file
                   /\ call' = [op |-> "update_job", ret |-> Raise("ValueError")]
           /\ UNCHANGED <<resumes_file, vectorizer, fitted, job_vectors, job_ids, requests>>

\* Database.delete_job(job_id)
DeleteJob ==
    \E job_id \in 1..MaxId :
        /\ jobs_file' = SelectSeq(jobs_file, LAMBDA j : j.id # job_id)
        /\ call' = [op |-> "delete_job", ret |-> Return(None)]
        /\ UNCHANGED <<resumes_file, vectorizer, fitted, job_vectors, job_ids, requests>>

\* The process starts again (app.py's __main__): a new JobMatcher, and
\* initialize_sample_jobs, which writes the samples only into an empty store.
Restart ==
    /\ jobs_file' = IF jobs_file # <<>> THEN jobs_file ELSE sample_jobs
    /\ SetSelf(FreshMatcher)
    /\ call' = [op |-> "restart", ret |-> Return(None)]
    /\ UNCHANGED <<resumes_file, requests>>

----------------------------------------------------------------------------
(* The shared JobMatcher, one call at a time. *)

matches_top_n == 10

\* get_resume_matches: job_matcher.find_matches(resume, top_n=10); jobs is
\* None, so the jobs are those of the store.
GetResumeMatches ==
    \E resume_data \in Resumes :
        LET jobs == jobs_file
            r == find_matches(Self, resume_data, jobs, matches_top_n)
        IN /\ call' = [op |-> "find_matches", resume_data |-> resume_data,
                       jobs_arg |-> None, jobs |-> jobs, top_n |-> matches_top_n,
                       ret |-> r.ret]
           /\ SetSelf(r.self)
           /\ UNCHANGED <<resumes_file, jobs_file, requests>>

\* find_matches(resume_data, [], top_n) called with an explicit empty list.
FindMatchesEmptyList ==
    \E resume_data \in Resumes, top_n \in 0..MaxTopN :
        LET r == find_matches(Self, resume_data, <<>>, top_n)
        IN /\ call' = [op |-> "find_matches", resume_data |-> resume_data,
                       jobs_arg |-> <<>>, jobs |-> <<>>, top_n |-> top_n,
                       ret |-> r.ret]
           /\ SetSelf(r.self)
           /\ UNCHANGED <<resumes_file, jobs_file, requests>>

\* fit_vectorizer(job_descriptions, job_ids) called directly, on an empty
\* corpus or on the stored jobs with their ids.
FitVectorizer ==
    \E job_descriptions \in {<<>>, jobs_file} :
        LET ids == JobIds(job_descriptions)
            r == fit_vectorizer(Self, job_descriptions, ids)
        IN /\ call' = [op |-> "fit_vectorizer", job_descriptions |-> job_descriptions,
                       job_ids |-> ids,
                       ret |-> IF r.raised THEN Raise(r.error) ELSE Return(None)]
           /\ SetSelf(r.self)
           /\ UNCHANGED <<resumes_file, jobs_file, requests>>

\* create_resume_vector(resume_data) called directly.
CreateResumeVector ==
    \E resume_data \in Resumes :
        /\ call' = [op |-> "create_resume_vector", resume_data |-> resume_data,
                    ret |-> create_resume_vector(Self, resume_data)]
        /\ UNCHANGED <<resumes_file, jobs_file, vectorizer, fitted, job_vectors, job_ids, requests>>

Init ==
    /\ MatcherInit
    /\ jobs_file = sample_jobs
    /\ resumes_file = <<>>
    /\ requests = <<>>
    /\ call = [op |-> "restart", ret |-> Return(None)]

Next ==
    \/ SaveJob
    \/ UpdateJob
    \/ DeleteJob
    \/ Restart
    \/ GetResumeMatches
    \/ FindMatchesEmptyList
    \/ FitVectorizer
    \/ CreateResumeVector

Spec == Init /\ [][Next]_vars

\* C3: find_matches with an empty jobs list returns [] for any profile and
\* top_n and attempts no fit: fitted, job_vectors and job_ids (and the
\* vectorizer) are as they were before the call.
C3_EmptyJobsNoFit ==
    [][(call'.op = "find_matches" /\ call'.jobs = <<>>)
          => /\ call'.ret = Return(<<>>)
             /\ UNCHANGED <<vectorizer, fitted, job_vectors, job_ids>>]_vars

\* The handler found the store empty after an earlier request had fitted the
\* matcher, which is still fitted.
C3_Witness ==
    /\ call.op = "find_matches"
    /\ call.jobs_arg = None
    /\ jobs_file = <<>>
    /\ call.ret = Return(<<>>)
    /\ fitted
    /\ job_ids # <<>>

\* C9 as stated: after every find_matches call with a non-empty jobs list the
\* matcher holds the fit of exactly that call's jobs: job_ids are their ids in
\* order and job_vectors has one row for each.
C9_RefitOnEveryCall ==
    (call.op = "find_matches" /\ call.jobs # <<>>)
        => /\ job_ids = JobIds(call.jobs)
           /\ job_vectors # None
           /\ Len(job_vectors) = Len(call.jobs)

\* C10: while no fit has succeeded on the JobMatcher (a new instance, and after
\* fit_vectorizer calls on an empty corpus, which change nothing),
\* create_resume_vector raises its "must be fitted first" ValueError and
\* returns no vector.
C10_NotFittedError ==
    /\ []((call.op = "create_resume_vector" /\ vectorizer = NotFitted)
             => call.ret = Raise("ValueError"))
    /\ [][(call'.op = "fit_vectorizer" /\ call'.job_descriptions = <<>>)
             => UNCHANGED <<vectorizer, fitted, job_vectors, job_ids>>]_vars

C10_Witness ==
    /\ call.op = "create_resume_vector"
    /\ vectorizer = NotFitted
    /\ ~fitted
    /\ call.ret.kind = "raise"

\* C12: from the sample jobs on, after any sequence of save_job, update_job
\* and delete_job calls no two stored jobs have the same id, and every
\* save_job returns an id that no job stored at the moment of the call had.
C12_UniqueJobIds ==
    /\ [](\A i, j \in 1..Len(jobs_file) : i # j => jobs_file[i].id # jobs_file[j].id)
    /\ [][call'.op = "save_job" => call'.ret.value \notin Range(JobIds(jobs_file))]_vars

\* A job was deleted and a job saved after it: the new job has the id that
\* follows the largest id left.
C12_Witness ==
    /\ call.op = "save_job"
    /\ call.ret.value = 2
    /\ Len(jobs_file) = 2
    /\ jobs_file[1].id = 1
    /\ jobs_file[2].id = 2

----------------------------------------------------------------------------
(* Two get_resume_matches requests served concurrently by the threaded     *)
(* server on the one job_matcher of app.py, while jobs are put and         *)
(* deleted.  A request's find_matches is cut at the points where the       *)
(* shared JobMatcher is written or read.                                   *)

RequestIds == {1, 2}

IdleRequest == [pc |-> "idle"]

\* lines 61-67: jobs = db.get_all_jobs(); an empty list is returned at once.
LoadJobs(r) ==
    \E resume_data \in Resumes :
        /\ requests[r].pc = "idle"
        /\ requests' = [requests EXCEPT ![r] =
               IF jobs_file = <<>>
               THEN [pc |-> "done", resume_data |-> resume_data, jobs |-> jobs_file,
                     ret |-> Return(<<>>)]
               ELSE [pc |-> "fit_transform", resume_data |-> resume_data,
                     jobs |-> jobs_file]]
        /\ UNCHANGED <<resumes_file, jobs_file, vectorizer, fitted, job_vectors, job_ids, call>>

\* line 38, right-hand side: vectorizer.fit_transform refits the shared
\* vectorizer in place and hands back the matrix.
FitTransformStep(r) ==
    /\ requests[r].pc = "fit_transform"
    /\ LET jobs == requests[r].jobs
           res == FitTransform(List([i \in 1..Len(jobs) |-> CombinedText(jobs[i])]))
       IN IF res.ok
          THEN /\ vectorizer' = res.vectorizer
               /\ requests' = [requests EXCEPT ![r] =
                      [pc |-> "assign", resume_data |-> requests[r].resume_data,
                       jobs |-> jobs, X |-> res.X]]
          ELSE /\ vectorizer' = vectorizer
               /\ requests' = [requests EXCEPT ![r] =
                      [pc |-> "done", resume_data |-> requests[r].resume_data,
                       jobs |-> jobs, ret |-> Raise(res.error)]]
    /\ UNCHANGED <<resumes_file, jobs_file, fitted, job_vectors, job_ids, call>>

\* lines 38-40: self.job_vectors, self.job_ids and self.fitted are stored.
AssignStep(r) ==
    /\ requests[r].pc = "assign"
    /\ job_vectors' = requests[r].X
    /\ job_ids' = JobIds(requests[r].jobs)
    /\ fitted' = TRUE
    /\ requests' = [requests EXCEPT ![r] =
           [pc |-> "vector", resume_data |-> requests[r].resume_data,
            jobs |-> requests[r].jobs]]
    /\ UNCHANGED <<resumes_file, jobs_file, vectorizer, call>>

\* line 74: create_resume_vector reads the shared vectorizer.
VectorStep(r) ==
    /\ requests[r].pc = "vector"
    /\ LET rv == create_resume_vector(Self, requests[r].resume_data)
       IN requests' = [requests EXCEPT ![r] =
              IF rv.kind = "raise"
              THEN [pc |-> "done", resume_data |-> requests[r].resume_data,
                    jobs |-> requests[r].jobs, ret |-> rv]
              ELSE [pc |-> "similarity", resume_data |-> requests[r].resume_data,
                    jobs |-> requests[r].jobs, resume_vector |-> rv.value]]
    /\ UNCHANGED <<resumes_file, jobs_file, vectorizer, fitted, job_vectors, job_ids, call>>

\* line 77: calculate_similarity reads self.job_vectors.
SimilarityStep(r) ==
    /\ requests[r].pc = "similarity"
    /\ LET sims == calculate_similarity(requests[r].resume_vector, job_vectors)
       IN requests' = [requests EXCEPT ![r] =
              IF sims.kind = "raise"
              THEN [pc |-> "done", resume_data |-> requests[r].resume_data,
                    jobs |-> requests[r].jobs, ret |-> sims]
              ELSE [pc |-> "rank", resume_data |-> requests[r].resume_data,
                    jobs |-> requests[r].jobs, similarities |-> sims.value]]
    /\ UNCHANGED <<resumes_file, jobs_file, vectorizer, fitted, job_vectors, job_ids, call>>

\* lines 79-113: the request ranks its own jobs by the similarities it holds.
RankStep(r) ==
    /\ requests[r].pc = "rank"
    /\ requests' = [requests EXCEPT ![r] =
           [pc |-> "done", resume_data |-> requests[r].resume_data,
            jobs |-> requests[r].jobs, similarities |-> requests[r].similarities,
            ret |-> rank_matches(requests[r].resume_data, requests[r].jobs,
                                 requests[r].similarities, matches_top_n)]]
    /\ UNCHANGED <<resumes_file, jobs_file, vectorizer, fitted, job_vectors, job_ids, call>>

\* The store is put to and deleted from by other requests (app.py 104-127).  A
\* write after both requests have read the store reaches neither of them, so
\* writes are followed only while a request has yet to read.
StoreWrite ==
    /\ \E r \in RequestIds : requests[r].pc = "idle"
    /\ (UpdateJob \/ DeleteJob)

InitConc ==
    /\ MatcherInit
    /\ jobs_file = sample_jobs
    /\ resumes_file = <<>>
    /\ requests = [r \in RequestIds |-> IdleRequest]
    /\ call = [op |-> "restart", ret |-> Return(None)]

NextConc ==
    \/ \E r \in RequestIds : LoadJobs(r)
    \/ \E r \in RequestIds : FitTransformStep(r)
    \/ \E r \in RequestIds : AssignStep(r)
    \/ \E r \in RequestIds : VectorStep(r)
    \/ \E r \in RequestIds : SimilarityStep(r)
    \/ \E r \in RequestIds : RankStep(r)
    \/ StoreWrite

SpecConc == InitConc /\ [][NextConc]_vars

\* The similarities of a request computed from the model fitted on its own
\* jobs alone.
OwnSimilarities(req) ==
    LET f == fit_vectorizer(FreshMatcher, req.jobs, JobIds(req.jobs))
    IN calculate_similarity(create_resume_vector(f.self, req.resume_data).value,
                            f.self.job_vectors)

\* C8 as stated: whatever the interleaving of two requests with different job
\* lists, the similarities a request ranks its jobs by are those of the model
\* fitted on its own jobs, and a request whose own fit succeeds does not fail
\* on the other request's model.
C8_RequestsIsolated ==
    \A r \in RequestIds :
        /\ requests[r].pc = "rank"
              => requests[r].similarities = OwnSimilarities(requests[r]).value
        /\ (requests[r].pc = "done" /\ requests[r].ret.kind = "raise")
              => find_matches(FreshMatcher, requests[r].resume_data,
                              requests[r].jobs, matches_top_n).ret.kind = "raise"

----------------------------------------------------------------------------
(* find_matches applied once to every profile, job list and top_n. *)

InitFind ==
    /\ MatcherInit
    /\ jobs_file = <<>>
    /\ resumes_file = <<>>
    /\ requests = <<>>
    /\ \E resume_data \in Profiles, jobs \in JobLists(MaxJobs), top_n \in 0..MaxTopN :
         call = [op |-> "find_matches", resume_data |-> resume_data, jobs |-> jobs,
                 top_n |-> top_n, ret |-> Pending]

CallFindMatches ==
    /\ call.op = "find_matches"
    /\ call.ret = Pending
    /\ LET r == find_matches(Self, call.resume_data, call.jobs, call.top_n)
       IN /\ call' = [call EXCEPT !.ret = r.ret]
          /\ SetSelf(r.self)
    /\ UNCHANGED <<resumes_file, jobs_file, requests>>

SpecFind == InitFind /\ [][CallFindMatches]_vars

FindReturned == call.op = "find_matches" /\ call.ret.kind = "return"

\* C1 as stated: every returned match has overall_score equal (to the cent) to
\* similarity_score * 0.6 + skill_match * 0.30 + experience_match * 0.10, the
\* three inputs on a 0-100 scale, so that overall_score lies in [0, 100].
C1_OverallScoreBlend ==
    FindReturned =>
        \A k \in 1..Len(call.ret.value) :
            LET m == call.ret.value[k]
                blend == Round2(RAdd(RAdd(RScale(Rat(m.similarity_score, 100), 6, 10),
                                          RScale(m.skill_match, 30, 100)),
                                     RScale(m.experience_match, 10, 100)))
            IN /\ 0 <= m.similarity_score /\ m.similarity_score <= 10000
               /\ m.overall_score - blend \in {-1, 0, 1}
               /\ 0 <= m.overall_score /\ m.overall_score <= 10000

\* C2: for a non-empty job list and top_n >= 0 the returned list is ordered by
\* overall_score, non-increasing, and holds at most top_n entries.
C2_SortedAndTruncated ==
    (FindReturned /\ call.jobs # <<>>) =>
        /\ Len(call.ret.value) <= call.top_n
        /\ \A k \in 1..(Len(call.ret.value) - 1) :
               call.ret.value[k].overall_score >= call.ret.value[k + 1].overall_score

\* Three jobs, two returned: the less similar of the two comes first because
\* its overall_score is the higher.
C2_Witness ==
    /\ FindReturned
    /\ Len(call.jobs) = 3
    /\ call.top_n = 2
    /\ Len(call.ret.value) = 2
    /\ call.ret.value[1].similarity_score < call.ret.value[2].similarity_score
    /\ call.ret.value[1].overall_score > call.ret.value[2].overall_score

\* The similarities of the call's jobs under the model the call has fitted.
CallSimilarities ==
    calculate_similarity(create_resume_vector(Self, call.resume_data).value, job_vectors).value

\* C13 as stated: the returned list is the first top_n of ALL jobs of
\* similarity > 0 ordered by overall_score: every returned entry is the match
\* of a job of similarity > 0, and a job of similarity > 0 is absent only if
\* at least top_n returned entries have an overall_score >= its own.
C13_BestOverallReturned ==
    (FindReturned /\ call.jobs # <<>>) =>
        LET ret == call.ret.value
            returned == {ret[k].job_id : k \in 1..Len(ret)}
        IN \A i \in 1..Len(call.jobs) :
               LET m == Match(call.resume_data, call.jobs[i], CallSimilarities[i])
               IN /\ call.jobs[i].id \in returned
                       => CallSimilarities[i] > 0 /\ \E k \in 1..Len(ret) : ret[k] = m
                  /\ (CallSimilarities[i] > 0 /\ call.jobs[i].id \notin returned)
                       => Cardinality({k \in 1..Len(ret) :
                                          ret[k].overall_score >= m.overall_score})
                              >= call.top_n

\* C7 as stated: the profile (skills python, text "python developer", 0 years)
\* ranked against the single job "Dev" completes without error with exactly
\* one match, of skill_match 50 and experience_match 100.
C7_SingleJobExample ==
    (/\ call.op = "find_matches"
     /\ call.ret # Pending
     /\ call.resume_data = ProfilePython
     /\ call.jobs = <<WithId(JobDev, 1)>>
     /\ call.top_n >= 1)
        => /\ call.ret.kind = "return"
           /\ Len(call.ret.value) = 1
           /\ call.ret.value[1].skill_match = RInt(50)
           /\ call.ret.value[1].experience_match = RInt(100)

----------------------------------------------------------------------------
(* calculate_skill_match applied to every pair of skill lists. *)

SkillPool == {W_empty, W_py, W_python, W_Python, W_SQL, W_sql}

SkillLists(n) == UNION {[1..k -> SkillPool] : k \in 0..n}

InitSkill ==
    /\ MatcherInit
    /\ jobs_file = <<>>
    /\ resumes_file = <<>>
    /\ requests = <<>>
    /\ \E S \in SkillLists(MaxResumeSkills), J \in SkillLists(MaxJobSkills) :
         call = [op |-> "calculate_skill_match", resume_skills |-> S,
                 job_skills |-> J, ret |-> Pending]

CallSkillMatch ==
    /\ call.op = "calculate_skill_match"
    /\ call.ret = Pending
    /\ call' = [call EXCEPT !.ret =
           Return(calculate_skill_match(call.resume_skills, call.job_skills))]
    /\ UNCHANGED <<resumes_file, jobs_file, vectorizer, fitted, job_vectors, job_ids, requests>>

SpecSkill == InitSkill /\ [][CallSkillMatch]_vars

\* a occurs in b as a contiguous substring, letters compared without case.
FoldIn(a, b) ==
    \E off \in 0..(Len(b) - Len(a)) :
        \A p \in 1..Len(a) : LowerChar(a[p]) = LowerChar(b[off + p])

SkillReturned == call.op = "calculate_skill_match" /\ call.ret.kind = "return"

\* C4: calculate_skill_match(S, J) lies in [0, 100] and is 100 * n / |J|, n the
\* number of entries of J that contain, or are contained in, some entry of S
\* as a case-insensitive substring; and it is 0 when J is empty.
C4_SkillMatchValue ==
    SkillReturned =>
        LET S == call.resume_skills
            J == call.job_skills
            v == call.ret.value
            n == Cardinality({i \in 1..Len(J) : \E k \in 1..Len(S) :
                     FoldIn(S[k], J[i]) \/ FoldIn(J[i], S[k])})
        IN /\ v.den > 0 /\ 0 <= v.num /\ v.num <= 100 * v.den
           /\ (J = <<>> => v.num = 0)
           /\ (J # <<>> => v.num * Len(J) = 100 * n * v.den)

\* One of two required skills is matched, through a difference of case, and
\* the result is 50.
C4_Witness ==
    /\ SkillReturned
    /\ call.resume_skills = <<W_python>>
    /\ call.job_skills = <<W_Python, W_SQL>>
    /\ call.ret.value = RInt(50)

\* C5 as stated: a skill list matched against itself scores 100.
C5_RoundTrip ==
    (SkillReturned /\ call.job_skills = call.resume_skills)
        => call.ret.value = RInt(100)

\* C5 amended: a non-empty skill list matched against itself scores 100.
C5_RoundTripNonEmpty ==
    (SkillReturned /\ call.job_skills = call.resume_skills
                   /\ call.resume_skills # <<>>)
        => call.ret.value = RInt(100)

C5_Witness ==
    /\ SkillReturned
    /\ call.resume_skills = <<W_Python, W_sql>>
    /\ call.job_skills = call.resume_skills
    /\ call.ret.value = RInt(100)

(* calculate_experience_match applied to every pair of year counts. *)

InitExp ==
    /\ MatcherInit
    /\ jobs_file = <<>>
    /\ resumes_file = <<>>
    /\ requests = <<>>
    /\ \E y \in 0..MaxYears, m \in 0..MaxYears :
         call = [op |-> "calculate_experience_match", resume_years |-> y,
                 job_min_years |-> m, ret |-> Pending]

CallExperienceMatch ==
    /\ call.op = "calculate_experience_match"
    /\ call.ret = Pending
    /\ call' = [call EXCEPT !.ret =
           Return(calculate_experience_match(call.resume_years, call.job_min_years))]
    /\ UNCHANGED <<resumes_file, jobs_file, vectorizer, fitted, job_vectors, job_ids, requests>>

SpecExp == InitExp /\ [][CallExperienceMatch]_vars

ExpReturned == call.op = "calculate_experience_match" /\ call.ret.kind = "return"

----------------------------------------------------------------------------
(* ResumeParser.extract_experience.  The text is a str; the two patterns   *)
(* of exp_patterns are matched character by character, as re.findall with  *)
(* re.IGNORECASE does: leftmost first, each quantifier greedy, the matches *)
(* not overlapping.  In both patterns a quantifier that gives characters   *)
(* back can never let the rest match, so the greedy attempt decides.       *)

W_years == <<"y", "e", "a", "r", "s">>
W_year == <<"y", "e", "a", "r">>
W_of == <<"o", "f">>
W_experience == <<"e", "x", "p", "e", "r", "i", "e", "n", "c", "e">>
W_Experience == <<"E", "x", "p", "e", "r", "i", "e", "n", "c", "e">>

Digits == <<"0", "1", "2", "3", "4", "5", "6", "7", "8", "9">>

IsDigit(c) == \E d \in 1..10 : Digits[d] = c

\* \s
IsSpace(c) == c \in {" ", "\n"}

\* int(m) of a run of digits
RECURSIVE ToInt(_)
ToInt(m) ==
    IF m = <<>> THEN 0
    ELSE 10 * ToInt(SubSeq(m, 1, Len(m) - 1))
         + (CHOOSE d \in 0..9 : Digits[d + 1] = m[Len(m)])

\* \d* and \s* from position i: the position after the run.
RECURSIVE SkipDigits(_, _)
SkipDigits(text, i) ==
    IF i <= Len(text) /\ IsDigit(text[i]) THEN SkipDigits(text, i + 1) ELSE i

RECURSIVE SkipSpace(_, _)
SkipSpace(text, i) ==
    IF i <= Len(text) /\ IsSpace(text[i]) THEN SkipSpace(text, i + 1) ELSE i

\* The literal w, in any case, at position i.
Lit(text, i, w) ==
    /\ i + Len(w) - 1 <= Len(text)
    /\ \A k \in 1..Len(w) : LowerChar(text[i + k - 1]) = w[k]

\* One optional character out of cs at position i: the position after it.
Opt(text, i, cs) == IF i <= Len(text) /\ LowerChar(text[i]) \in cs THEN i + 1 ELSE i

\* (\d+)\+?\s*years?\s*(?:of\s*)?experience  at position i:
\* [ok, group, end], end the position after the match.
MatchYearsExperience(text, i) ==
    LET d == SkipDigits(text, i)
        y == SkipSpace(text, Opt(text, d, {"+"}))
        o == SkipSpace(text, Opt(text, y + 4, {"s"}))
        e == IF Lit(text, o, W_of) THEN SkipSpace(text, o + 2) ELSE o
    IN IF d > i /\ Lit(text, y, W_year) /\ Lit(text, e, W_experience)
       THEN [ok |-> TRUE, group |-> SubSeq(text, i, d - 1), end |-> e + 10]
       ELSE [ok |-> FALSE]

\* experience[:\-]?\s*(\d+)\+?\s*years?  at position i.
MatchExperienceYears(text, i) ==
    LET n == SkipSpace(text, Opt(text, i + 10, {":", "-"}))
        d == SkipDigits(text, n)
        y == SkipSpace(text, Opt(text, d, {"+"}))
    IN IF Lit(text, i, W_experience) /\ d > n /\ Lit(text, y, W_year)
       THEN [ok |-> TRUE, group |-> SubSeq(text, n, d - 1),
             end |-> Opt(text, y + 4, {"s"})]
       ELSE [ok |-> FALSE]

\* re.findall(pattern, text, re.IGNORECASE) from position i on.
RECURSIVE FindAllYearsExperience(_, _)
FindAllYearsExperience(text, i) ==
    IF i > Len(text) THEN <<>>
    ELSE IF MatchYearsExperience(text, i).ok
         THEN <<MatchYearsExperience(text, i).group>>
              \o FindAllYearsExperience(text, MatchYearsExperience(text, i).end)
         ELSE FindAllYearsExperience(text, i + 1)

RECURSIVE FindAllExperienceYears(_, _)
FindAllExperienceYears(text, i) ==
    IF i > Len(text) THEN <<>>
    ELSE IF MatchExperienceYears(text, i).ok
         THEN <<MatchExperienceYears(text, i).group>>
              \o FindAllExperienceYears(text, MatchExperienceYears(text, i).end)
         ELSE FindAllExperienceYears(text, i + 1)

\* max([int(m) for m in matches])
MaxInt(matches) == MaxOf(List([k \in 1..Len(matches) |-> ToInt(matches[k])]))

\* lines 128-157: the loop over exp_patterns assigns experience['years'] for
\* each pattern that matches, the second after the first.
extract_experience(text) ==
    LET first == FindAllYearsExperience(text, 1)
        second == FindAllExperienceYears(text, 1)
        years1 == IF first # <<>> THEN MaxInt(first) ELSE 0
    IN [years |-> IF second # <<>> THEN MaxInt(second) ELSE years1]

----------------------------------------------------------------------------
(* ResumeParser.extract_text and parse.  A file is its content: the kind   *)
(* of data it holds (utf-8 text, a PDF, a DOCX document, or bytes that are *)
(* none of these; "missing" when nothing is at the path) and the text that *)
(* a reader of that kind finds in it.                                      *)

ParserError == Raise("Exception")

\* open(filepath, 'rb') and PyPDF2.PdfReader: one page of text.
extract_text_from_pdf(content) ==
    IF content.kind = "pdf" THEN Return(content.text \o <<"\n">>) ELSE ParserError

\* docx.Document(filepath): one paragraph of text.
extract_text_from_docx(content) ==
    IF content.kind = "docx" THEN Return(content.text \o <<"\n">>) ELSE ParserError

\* open(filepath, 'r', encoding='utf-8').read()
extract_text_from_txt(content) ==
    IF content.kind = "text" THEN Return(content.text) ELSE ParserError

\* filepath.rsplit('.', 1)[-1]: what follows the last dot, the whole path
\* when it has no dot.
RSplitLast(filepath) ==
    LET dots == {k \in 1..Len(filepath) : filepath[k] = "."}
    IN IF dots = {} THEN filepath
       ELSE SubSeq(filepath, (CHOOSE k \in dots : \A j \in dots : j <= k) + 1, Len(filepath))

W_pdf == <<"p", "d", "f">>
W_docx == <<"d", "o", "c", "x">>
W_doc == <<"d", "o", "c">>
W_txt == <<"t", "x", "t">>

extract_text(filepath, content) ==
    LET ext == Lower(RSplitLast(filepath))
    IN IF ext = W_pdf THEN extract_text_from_pdf(content)
       ELSE IF ext \in {W_docx, W_doc} THEN extract_text_from_docx(content)
       ELSE IF ext = W_txt THEN extract_text_from_txt(content)
       ELSE ParserError

\* \w
IsWordChar(c) == c \notin {" ", "\n", ".", ",", ":", "-", "+", "/"}

\* The runs of word characters of a text: what clean_text and the
\* vectorizer's token pattern leave of it for the matcher.
RECURSIVE WordRuns(_, _)
WordRuns(text, word) ==
    IF text = <<>> THEN (IF word = <<>> THEN <<>> ELSE <<word>>)
    ELSE IF IsWordChar(text[1]) THEN WordRuns(Tail(text), Append(word, text[1]))
    ELSE (IF word = <<>> THEN <<>> ELSE <<word>>) \o WordRuns(Tail(text), <<>>)

\* Three of the skill_keywords, in the order of the list.
skill_keywords == <<W_python, W_sql, W_r>>

\* All orders of a list: list(set(found_skills)) yields the skills in the
\* set's iteration order, which differs from run to run.
Orders(seq) ==
    {List([k \in 1..Len(seq) |-> seq[f[k]]]) :
        f \in {g \in [1..Len(seq) -> 1..Len(seq)] :
                  \A a, b \in 1..Len(seq) : a # b => g[a] # g[b]}}

\* lines 100-126: the keywords found in the lower-cased text.  No text of
\* the model holds "skill" or "proficienc", so skill_patterns match nothing.
extract_skills(text) ==
    Orders(SelectSeq(skill_keywords, LAMBDA skill : In(Lower(skill), Lower(text))))

\* parse(filepath): the outcomes it can have, an exception of extract_text
\* or the parsed data.
parse(filepath, content) ==
    LET raw_text == extract_text(filepath, content)
    IN IF raw_text.kind = "raise" THEN {raw_text}
       ELSE {Return([raw_text |-> raw_text.value,
                     cleaned_text |-> WordRuns(raw_text.value, <<>>),
                     skills |-> skills,
                     years |-> extract_experience(raw_text.value).years]) :
                skills \in extract_skills(raw_text.value)}

----------------------------------------------------------------------------
(* The upload handler of app.py, and extract_text and parse called on any  *)
(* path.                                                                   *)

MaxResumes == 2

upload_top_n == 5

ALLOWED_EXTENSIONS == {W_pdf, W_docx, W_txt, W_doc}

UPLOAD_FOLDER == <<"u", "p", "l", "o", "a", "d", "s">>

\* '.' in filename and filename.rsplit('.', 1)[1].lower() in ALLOWED_EXTENSIONS
allowed_file(filename) ==
    /\ \E k \in 1..Len(filename) : filename[k] = "."
    /\ Lower(RSplitLast(filename)) \in ALLOWED_EXTENSIONS

\* str.strip('._')
RECURSIVE Strip(_)
Strip(name) ==
    IF name = <<>> THEN name
    ELSE IF name[1] \in {".", "_"} THEN Strip(Tail(name))
    ELSE IF name[Len(name)] \in {".", "_"} THEN Strip(SubSeq(name, 1, Len(name) - 1))
    ELSE name

\* werkzeug's secure_filename on a name without blanks: the characters
\* outside [A-Za-z0-9_.-] are dropped, then leading and trailing dots and
\* underscores.
secure_filename(filename) == Strip(SelectSeq(filename, LAMBDA c : c \notin {"/", ":", "+"}))

\* os.path.join(UPLOAD_FOLDER, filename)
PathJoin(dir, name) == dir \o <<"/">> \o name

\* Database.save_resume: the id given to the new record.
save_resume_new_id(resumes) == IF resumes # <<>> THEN MaxOf(JobIds(resumes)) + 1 ELSE 1

F_cv == <<"c", "v">>

\* Names a browser may send with the file; the last loses its dot to
\* secure_filename.
UploadNames == {<<>>, F_cv \o <<".">> \o W_txt, F_cv \o <<".">> \o W_pdf,
                F_cv \o <<".", "e", "x", "e">>, F_cv, <<".">> \o W_txt}

\* Paths extract_text and parse are called on: with and without a dot, in
\* upper case, with a dot in the directory only, and bare names.
Paths == {F_cv \o <<".">> \o W_txt, F_cv \o <<".", "P", "D", "f">>,
          F_cv \o <<".">> \o W_docx, F_cv \o <<".">> \o W_doc,
          F_cv \o <<".", "e", "x", "e">>, F_cv \o <<".">>, F_cv,
          <<"a", ".", "b", "/">> \o F_cv, PathJoin(UPLOAD_FOLDER, W_txt), W_txt, W_pdf}

T_python_developer == Join(<<W_python, W_developer>>)

T_sql_role_years == Join(<<W_sql, W_role, <<"3">>, W_years, W_experience>>)

FileContents ==
    {[kind |-> "text", text |-> T_python_developer],
     [kind |-> "text", text |-> T_sql_role_years],
     [kind |-> "pdf", text |-> T_python_developer],
     [kind |-> "docx", text |-> T_sql_role_years],
     [kind |-> "bytes"],
     [kind |-> "missing"]}

NotParsed == [kind |-> "not parsed"]

Respond(filename, content, parsed, status) ==
    [op |-> "upload_resume", filename |-> filename, content |-> content,
     parsed |-> parsed, status |-> status]

\* upload_resume, lines 48-86
UploadResume ==
    \E has_file \in BOOLEAN, filename \in UploadNames, content \in FileContents \ {[kind |-> "missing"]} :
        /\ Len(resumes_file) < MaxResumes
        /\ IF ~has_file \/ filename = <<>> \/ ~allowed_file(filename)
           THEN /\ call' = Respond(filename, content, NotParsed, 400)
                /\ UNCHANGED <<resumes_file, vectorizer, fitted, job_vectors, job_ids>>
           ELSE \E parsed \in parse(PathJoin(UPLOAD_FOLDER, secure_filename(filename)), content) :
                    IF parsed.kind = "raise"
                    THEN /\ call' = Respond(filename, content, parsed, 500)
                         /\ UNCHANGED <<resumes_file, vectorizer, fitted, job_vectors, job_ids>>
                    ELSE LET resume_data == parsed.value
                             resume_id == save_resume_new_id(resumes_file)
                             r == find_matches(Self, resume_data, jobs_file, upload_top_n)
                         IN /\ resumes_file' = Append(resumes_file,
                                    [id |-> resume_id, filename |-> secure_filename(filename),
                                     cleaned_text |-> resume_data.cleaned_text,
                                     skills |-> resume_data.skills,
                                     years |-> resume_data.years])
                            /\ SetSelf(r.self)
                            /\ call' = Respond(filename, content, parsed,
                                               IF r.ret.kind = "raise" THEN 500 ELSE 200)
        /\ UNCHANGED <<jobs_file, requests>>

\* resume_parser.extract_text(filepath)
ExtractText ==
    \E filepath \in Paths, content \in FileContents :
        /\ call' = [op |-> "extract_text", filepath |-> filepath, content |-> content,
                    ret |-> extract_text(filepath, content)]
        /\ UNCHANGED <<resumes_file, jobs_file, vectorizer, fitted, job_vectors, job_ids, requests>>

\* resume_parser.parse(filepath)
ParseFile ==
    \E filepath \in Paths, content \in FileContents :
        \E parsed \in parse(filepath, content) :
            /\ call' = [op |-> "parse", filepath |-> filepath, content |-> content,
                        ret |-> parsed]
            /\ UNCHANGED <<resumes_file, jobs_file, vectorizer, fitted, job_vectors, job_ids, requests>>

NextUpload ==
    \/ UploadResume
    \/ ExtractText
    \/ ParseFile

SpecUpload == Init /\ [][NextUpload]_vars

\* The path has a dot, and what follows its last dot is pdf, docx, doc or txt
\* in any case.
HasSupportedExtension(filepath) ==
    /\ \E k \in 1..Len(filepath) : filepath[k] = "."
    /\ Lower(RSplitLast(filepath)) \in {W_pdf, W_docx, W_doc, W_txt}

\* C11 as stated: extract_text raises for every path whose extension is not
\* pdf, docx, doc or txt, a path with no dot included; parse returns nothing
\* when extraction fails; and an upload whose parse fails leaves the stored
\* resumes as they were.
C11_UnsupportedOrFailedExtraction ==
    /\ []((call.op = "extract_text" /\ ~HasSupportedExtension(call.filepath))
             => call.ret.kind = "raise")
    /\ []((call.op = "parse"
           /\ extract_text(call.filepath, call.content).kind = "raise")
             => call.ret.kind = "raise")
    /\ [][(call'.op = "upload_resume" /\ call'.parsed.kind = "raise")
             => resumes_file' = resumes_file]_vars

----------------------------------------------------------------------------
(* extract_experience applied to texts of one or more lines. *)

MaxSegments == 2

\* Lines of a resume: phrases of either pattern, with "+", "of", ":" and "-",
\* in upper case, without blanks, with one and with two digits, and lines
\* that match neither pattern alone.
ExperienceLines ==
    {Join(<<<<"1", "0">>, W_years, W_experience>>),
     Join(<<W_experience \o <<":">>, <<"3">>, W_years>>),
     Join(<<<<"5", "+">>, W_years, W_of, W_experience>>),
     Join(<<W_Experience \o <<"-">>, <<"1", "2">>, W_year>>),
     <<"7">> \o W_years \o W_experience,
     Join(<<<<"2">>, W_years>>),
     Join(<<W_python, W_developer>>)}

\* '\n'.join(lines)
RECURSIVE JoinLines(_)
JoinLines(lines) ==
    IF lines = <<>> THEN <<>>
    ELSE IF Len(lines) = 1 THEN lines[1]
    ELSE lines[1] \o <<"\n">> \o JoinLines(Tail(lines))

ExperienceTexts(n) ==
    UNION {{JoinLines(lines) : lines \in [1..k -> ExperienceLines]} : k \in 0..n}

InitExperience ==
    /\ MatcherInit
    /\ jobs_file = <<>>
    /\ resumes_file = <<>>
    /\ requests = <<>>
    /\ \E text \in ExperienceTexts(MaxSegments) :
         call = [op |-> "extract_experience", text |-> text, ret |-> Pending]

CallExtractExperience ==
    /\ call.op = "extract_experience"
    /\ call.ret = Pending
    /\ call' = [call EXCEPT !.ret = Return(extract_experience(call.text))]
    /\ UNCHANGED <<resumes_file, jobs_file, vectorizer, fitted, job_vectors, job_ids, requests>>

SpecExperience == InitExperience /\ [][CallExtractExperience]_vars

\* C14 as stated: years is the maximum of all numbers matched by either
\* pattern anywhere in the text, the maximum over the union of both patterns'
\* matches, and 0 when neither pattern matches.
C14_MaxOverBothPatterns ==
    (call.op = "extract_experience" /\ call.ret.kind = "return") =>
        call.ret.value.years =
            MaxInt(FindAllYearsExperience(call.text, 1) \o FindAllExperienceYears(call.text, 1))

----------------------------------------------------------------------------
(* find_matches on texts that repeat one word many times, so that a resume *)
(* and a job that share a single word are almost orthogonal.               *)

Stuffing == 101

\* [w] * n
Repeat(w, n) == [k \in 1..n |-> w]

\* "role" once, then "sql" over and over.
JobStuffed == [title |-> <<W_role>>, description |-> Repeat(W_sql, Stuffing),
               required_skills |-> <<>>, min_experience |-> 0]

JobPythonic == [title |-> <<W_python>>, description |-> <<W_python, W_developer>>,
                required_skills |-> <<W_python>>, min_experience |-> 0]

StuffedJobLists(n) ==
    UNION {{[i \in 1..k |-> WithId(b[i], i)] : b \in [1..k -> {JobStuffed, JobPythonic}]} :
              k \in 0..n}

\* "role" once, then "python" over and over.
ProfileStuffed == [cleaned_text |-> <<W_role>> \o Repeat(W_python, Stuffing),
                   skills |-> <<>>, years |-> 0]

InitStuffed ==
    /\ MatcherInit
    /\ jobs_file = <<>>
    /\ resumes_file = <<>>
    /\ requests = <<>>
    /\ \E resume_data \in {ProfileStuffed, ProfileSql}, jobs \in StuffedJobLists(MaxJobs),
          top_n \in 0..MaxTopN :
         call = [op |-> "find_matches", resume_data |-> resume_data, jobs |-> jobs,
                 top_n |-> top_n, ret |-> Pending]

SpecStuffed == InitStuffed /\ [][CallFindMatches]_vars

\* C15 as stated: no returned match has similarity_score 0 (the reported
\* value, rounded to two decimals on the 0-100 scale), and a job whose
\* similarity is exactly 0 is never returned.
C15_NoZeroSimilarityReturned ==
    (FindReturned /\ call.jobs # <<>>) =>
        /\ \A k \in 1..Len(call.ret.value) : call.ret.value[k].similarity_score # 0
        /\ \A i \in 1..Len(call.jobs) :
               CallSimilarities[i] = 0
                   => \A k \in 1..Len(call.ret.value) :
                          call.ret.value[k].job_id # call.jobs[i].id

====
